---- MODULE Spec2Model ----
(***************************************************************************)
(* Model of the endpoint execution pipeline of src/src/endpoint.rs:        *)
(* Endpoint::execute, build_url and parse, together with the collaborators *)
(* they call (the client's execute, the endpoint's transform hook, the     *)
(* JSON encoder/decoder, UTF-8 conversion and the URL type).               *)
(*                                                                         *)
(* Strings are sequences of Unicode code points, byte vectors are          *)
(* sequences of integers in 0..255.                                        *)
(***************************************************************************)
EXTENDS Integers, Sequences, FiniteSets, TLC

\* Number of Endpoint::execute calls explored in one behaviour.
MaxCalls == 2

(***************************************************************************)
(* Text helpers                                                            *)
(***************************************************************************)

\* Code points of the characters used in the literals below.
Chr ==
  ("a" :> 97 @@ "b" :> 98 @@ "c" :> 99 @@ "d" :> 100 @@ "e" :> 101 @@
   "h" :> 104 @@ "i" :> 105 @@ "l" :> 108 @@ "m" :> 109 @@ "n" :> 110 @@
   "o" :> 111 @@ "p" :> 112 @@ "s" :> 115 @@ "t" :> 116 @@ "u" :> 117 @@ "v" :> 118 @@ "w" :> 119 @@
   "f" :> 102 @@ "x" :> 120 @@ ":" :> 58 @@ "/" :> 47 @@ "." :> 46 @@ "{" :> 123 @@
   "}" :> 125 @@ "[" :> 91 @@ "]" :> 93 @@ "\"" :> 34 @@ "," :> 44 @@
   "0" :> 48 @@ "2" :> 50 @@ "4" :> 52 @@ "7" :> 55)

\* The string whose characters are listed in cs.
S(cs) == [i \in DOMAIN cs |-> Chr[cs[i]]]

Slash == Chr["/"]
Colon == Chr[":"]
Dot == Chr["."]
Quote == Chr["\""]

\* Index of the first occurrence of character ch in s at or after position i,
\* or 0 when there is none.
RECURSIVE Find(_, _, _)
Find(s, ch, i) ==
  IF i > Len(s) THEN 0
  ELSE IF s[i] = ch THEN i
  ELSE Find(s, ch, i + 1)

\* s with its first n characters removed.
Drop(s, n) == SubSeq(s, n + 1, Len(s))

\* str::split(ch): the pieces of s between occurrences of ch, empty pieces
\* included (so "a/b/" gives "a", "b", "").
RECURSIVE Split(_, _)
Split(s, ch) ==
  LET i == Find(s, ch, 1)
  IN IF i = 0 THEN <<s>>
     ELSE <<SubSeq(s, 1, i - 1)>> \o Split(Drop(s, i), ch)

\* String::into_bytes: the UTF-8 encoding of a string.
EncodeChar(cp) ==
  IF cp < 128 THEN <<cp>>
  ELSE IF cp < 2048 THEN <<192 + (cp \div 64), 128 + (cp % 64)>>
  ELSE IF cp < 65536
    THEN <<224 + (cp \div 4096), 128 + ((cp \div 64) % 64), 128 + (cp % 64)>>
  ELSE <<240 + (cp \div 262144), 128 + ((cp \div 4096) % 64),
         128 + ((cp \div 64) % 64), 128 + (cp % 64)>>

RECURSIVE into_bytes(_)
into_bytes(s) ==
  IF s = <<>> THEN <<>>
  ELSE EncodeChar(Head(s)) \o into_bytes(Tail(s))

IsCont(b) == b >= 128 /\ b <= 191

\* Number of bytes of the well-formed UTF-8 sequence at the head of b,
\* or 0 when the head of b is not well formed.
SeqLen(b) ==
  LET b0 == b[1]
      n == Len(b)
  IN IF b0 < 128 THEN 1
     ELSE IF b0 >= 194 /\ b0 <= 223
       THEN IF n >= 2 /\ IsCont(b[2]) THEN 2 ELSE 0
     ELSE IF b0 >= 224 /\ b0 <= 239
       THEN IF /\ n >= 3
               /\ IsCont(b[2])
               /\ IsCont(b[3])
               /\ (b0 = 224 => b[2] >= 160)
               /\ (b0 = 237 => b[2] <= 159)
            THEN 3 ELSE 0
     ELSE IF b0 >= 240 /\ b0 <= 244
       THEN IF /\ n >= 4
               /\ IsCont(b[2])
               /\ IsCont(b[3])
               /\ IsCont(b[4])
               /\ (b0 = 240 => b[2] >= 144)
               /\ (b0 = 244 => b[2] <= 143)
            THEN 4 ELSE 0
     ELSE 0

DecodeChar(b, n) ==
  IF n = 1 THEN b[1]
  ELSE IF n = 2 THEN (b[1] - 192) * 64 + (b[2] - 128)
  ELSE IF n = 3 THEN (b[1] - 224) * 4096 + (b[2] - 128) * 64 + (b[3] - 128)
  ELSE (b[1] - 240) * 262144 + (b[2] - 128) * 4096
       + (b[3] - 128) * 64 + (b[4] - 128)

\* String::from_utf8: the text of a byte vector, or a failure when the bytes
\* are not well-formed UTF-8.
RECURSIVE from_utf8(_)
from_utf8(b) ==
  IF b = <<>> THEN [ok |-> TRUE, text |-> <<>>]
  ELSE LET n == SeqLen(b)
       IN IF n = 0 THEN [ok |-> FALSE, text |-> <<>>]
          ELSE LET rest == from_utf8(Drop(b, n))
               IN IF rest.ok
                    THEN [ok |-> TRUE, text |-> <<DecodeChar(b, n)>> \o rest.text]
                    ELSE rest

(***************************************************************************)
(* url::Url, as far as build_url uses it                                   *)
(***************************************************************************)

IsAlpha(cp) == (cp >= 97 /\ cp <= 122) \/ (cp >= 65 /\ cp <= 90)
IsDigit(cp) == cp >= 48 /\ cp <= 57
IsSchemeChar(cp) == IsAlpha(cp) \/ IsDigit(cp) \/ cp \in {43, 45, 46}

SpecialSchemes ==
  {S(<<"h", "t", "t", "p">>), S(<<"h", "t", "t", "p", "s">>),
   S(<<"w", "s">>), S(<<"w", "s", "s">>), S(<<"f", "t", "p">>)}

\* Number of leading '/' characters of s.
RECURSIVE LeadingSlashes(_)
LeadingSlashes(s) ==
  IF s # <<>> /\ Head(s) = Slash THEN 1 + LeadingSlashes(Tail(s)) ELSE 0

NoUrl == [serialization |-> <<>>, path_start |-> 0, cannot_be_a_base |-> FALSE]

\* A parsed URL: its serialization, the offset at which its path starts, and
\* whether it is a cannot-be-a-base URL (one with an opaque path).
MkUrl(scheme, host, hasAuthority, path, opaque) ==
  LET prefix == scheme \o <<Colon>>
                \o (IF hasAuthority THEN <<Slash, Slash>> \o host ELSE <<>>)
  IN [serialization |-> prefix \o path,
      path_start |-> Len(prefix),
      cannot_be_a_base |-> opaque]

\* Url::parse of a string without base, query or fragment: the scheme up to
\* the first ':', then for a special scheme the host and a path that is "/"
\* when absent; for another scheme a hierarchical URL when a '/' follows the
\* ':' and a cannot-be-a-base URL otherwise.
ParseUrl(input) ==
  LET i == Find(input, Colon, 1)
      scheme == SubSeq(input, 1, i - 1)
      rest == Drop(input, i)
      afterSlashes == Drop(rest, LeadingSlashes(rest))
      j == Find(afterSlashes, Slash, 1)
      host == IF j = 0 THEN afterSlashes ELSE SubSeq(afterSlashes, 1, j - 1)
      hpath == IF j = 0 THEN <<>> ELSE Drop(afterSlashes, j - 1)
  IN IF \/ i <= 1
        \/ ~IsAlpha(input[1])
        \/ \E k \in 1..(i - 1) : ~IsSchemeChar(input[k])
       THEN [ok |-> FALSE, url |-> NoUrl]
     ELSE IF scheme \in SpecialSchemes
       THEN IF host = <<>>
              THEN [ok |-> FALSE, url |-> NoUrl]
              ELSE [ok |-> TRUE,
                    url |-> MkUrl(scheme, host, TRUE,
                                  IF hpath = <<>> THEN <<Slash>> ELSE hpath,
                                  FALSE)]
     ELSE IF LeadingSlashes(rest) >= 2
       THEN LET a == Drop(rest, 2)
                k == Find(a, Slash, 1)
            IN [ok |-> TRUE,
                url |-> MkUrl(scheme,
                              IF k = 0 THEN a ELSE SubSeq(a, 1, k - 1),
                              TRUE,
                              IF k = 0 THEN <<>> ELSE Drop(a, k - 1),
                              FALSE)]
     ELSE IF LeadingSlashes(rest) = 1
       THEN [ok |-> TRUE, url |-> MkUrl(scheme, <<>>, FALSE, rest, FALSE)]
     ELSE [ok |-> TRUE, url |-> MkUrl(scheme, <<>>, FALSE, rest, TRUE)]

\* Url::path: the part of the serialization from path_start on.
Path(url) == Drop(url.serialization, url.path_start)

HexDigit(n) == IF n < 10 THEN 48 + n ELSE 55 + n

\* Percent-encoding of one byte of a path segment pushed through
\* PathSegmentsMut: controls, space, non-ASCII and  " # < > ? ` { } % /
\* become %XX, every other byte is kept.
EncodeSegmentByte(b) ==
  IF b <= 32 \/ b >= 127 \/ b \in {34, 35, 60, 62, 63, 96, 123, 125, 37, 47}
    THEN <<37, HexDigit(b \div 16), HexDigit(b % 16)>>
    ELSE <<b>>

RECURSIVE EncodeSegmentBytes(_)
EncodeSegmentBytes(b) ==
  IF b = <<>> THEN <<>>
  ELSE EncodeSegmentByte(Head(b)) \o EncodeSegmentBytes(Tail(b))

EncodeSegment(seg) == EncodeSegmentBytes(into_bytes(seg))

\* One step of PathSegmentsMut::extend: a "." or ".." segment is skipped;
\* otherwise a '/' is added unless the path so far is exactly "/", and the
\* encoded segment follows.
PushSegment(url, seg) ==
  IF seg = <<Dot>> \/ seg = <<Dot, Dot>> THEN url
  ELSE LET ser == url.serialization
           sep == IF Len(ser) > url.path_start + 1 \/ Len(ser) = url.path_start
                    THEN <<Slash>> ELSE <<>>
       IN [url EXCEPT !.serialization = ser \o sep \o EncodeSegment(seg)]

\* PathSegmentsMut::extend over a sequence of segments.
RECURSIVE Extend(_, _)
Extend(url, segments) ==
  IF segments = <<>> THEN url
  ELSE Extend(PushSegment(url, Head(segments)), Tail(segments))

(***************************************************************************)
(* Errors and results                                                      *)
(***************************************************************************)

\* A ClientError: its variant and the string or bytes it carries.
ClientError(kind, content) == [kind |-> kind, content |-> content]
NoError == ClientError("none", <<>>)

\* build_url (endpoint.rs): parse the base, then extend its path segments
\* with the pieces of action split on '/'.  path_segments_mut() is an Err
\* for a cannot-be-a-base URL and the unwrap() then panics.
build_url(action, base) ==
  LET p == ParseUrl(base)
  IN IF ~p.ok
       THEN [tag |-> "Err", err |-> ClientError("UrlParseError", base), url |-> NoUrl]
     ELSE IF p.url.cannot_be_a_base
       THEN [tag |-> "Panic", err |-> NoError, url |-> NoUrl]
     ELSE [tag |-> "Ok", err |-> NoError, url |-> Extend(p.url, Split(action, Slash))]

(***************************************************************************)
(* serde_json                                                              *)
(***************************************************************************)

\* The data an endpoint value presents to the serializer.
Val(t, s, items) == [t |-> t, s |-> s, items |-> items]
Item(k, v) == [k |-> k, v |-> v]

\* A string's characters with '"' and '\' escaped.
RECURSIVE Escape(_)
Escape(s) ==
  IF s = <<>> THEN <<>>
  ELSE (IF Head(s) \in {34, 92} THEN <<92, Head(s)>> ELSE <<Head(s)>>)
       \o Escape(Tail(s))

JsonString(s) == <<Quote>> \o Escape(s) \o <<Quote>>

\* serde_json::to_string: unit is null, a string is quoted, a struct or map
\* is {"k":v,...}, a sequence is [v,...]; a map with a key that is not a
\* string cannot be serialized, nor can anything containing one.
RECURSIVE to_string(_)
RECURSIVE JoinItems(_, _)
JoinItems(items, withKeys) ==
  IF items = <<>> THEN [ok |-> TRUE, text |-> <<>>]
  ELSE LET h == to_string(Head(items).v)
           r == JoinItems(Tail(items), withKeys)
           key == IF withKeys THEN JsonString(Head(items).k) \o <<Colon>> ELSE <<>>
           comma == IF Tail(items) = <<>> THEN <<>> ELSE <<Chr[","]>>
       IN IF h.ok /\ r.ok
            THEN [ok |-> TRUE, text |-> key \o h.text \o comma \o r.text]
            ELSE [ok |-> FALSE, text |-> <<>>]

to_string(v) ==
  IF v.t = "unit" THEN [ok |-> TRUE, text |-> S(<<"n", "u", "l", "l">>)]
  ELSE IF v.t = "str" THEN [ok |-> TRUE, text |-> JsonString(v.s)]
  ELSE IF v.t = "struct"
    THEN LET r == JoinItems(v.items, TRUE)
         IN IF r.ok
              THEN [ok |-> TRUE, text |-> <<Chr["{"]>> \o r.text \o <<Chr["}"]>>]
              ELSE r
  ELSE IF v.t = "seq"
    THEN LET r == JoinItems(v.items, FALSE)
         IN IF r.ok
              THEN [ok |-> TRUE, text |-> <<Chr["["]>> \o r.text \o <<Chr["]"]>>]
              ELSE r
  ELSE [ok |-> FALSE, text |-> <<>>]

\* A decoded E::Result: its type and, for the struct with one integer field
\* `value`, that field.
Decoded(ty, value) == [ty |-> ty, value |-> value]
NoValue == Decoded("none", 0)

RECURSIVE ToNat(_)
ToNat(digits) ==
  IF digits = <<>> THEN 0
  ELSE ToNat(SubSeq(digits, 1, Len(digits) - 1)) * 10
       + (digits[Len(digits)] - 48)

IsNumber(s) ==
  /\ s # <<>>
  /\ \A k \in DOMAIN s : IsDigit(s[k])
  /\ (Len(s) > 1 => s[1] # 48)

ValuePrefix == <<Chr["{"]>> \o JsonString(S(<<"v", "a", "l", "u", "e">>)) \o <<Colon>>

\* serde_json::from_str::<E::Result> on texts without whitespace that are
\* either {}, {"value":<digits>} or not JSON at all.  EmptyEndpointResult
\* (ty "Empty") decodes from any object; the struct with a `value` field
\* (ty "Value") needs that field.
from_str(ty, text) ==
  LET n == Len(text)
      p == Len(ValuePrefix)
      isEmptyObject == text = <<Chr["{"], Chr["}"]>>
      isValueObject ==
        /\ n > p + 1
        /\ SubSeq(text, 1, p) = ValuePrefix
        /\ text[n] = Chr["}"]
        /\ IsNumber(SubSeq(text, p + 1, n - 1))
  IN IF isValueObject
       THEN [ok |-> TRUE,
             value |-> IF ty = "Value"
                         THEN Decoded(ty, ToNat(SubSeq(text, p + 1, n - 1)))
                         ELSE Decoded(ty, 0)]
     ELSE IF isEmptyObject /\ ty = "Empty"
       THEN [ok |-> TRUE, value |-> Decoded(ty, 0)]
     ELSE [ok |-> FALSE, value |-> NoValue]

(***************************************************************************)
(* Endpoint::execute and parse                                             *)
(***************************************************************************)

Request(url, method, query, body) ==
  [url |-> url, method |-> method, query |-> query, body |-> body]
NoRequest == Request(NoUrl, "none", <<>>, <<>>)

\* A Result<Option<E::Result>, ClientError>, or a panic, or nothing yet.
Ok(some, value) == [tag |-> "Ok", err |-> NoError, some |-> some, value |-> value]
Err(e) == [tag |-> "Err", err |-> e, some |-> FALSE, value |-> NoValue]
Panic == [tag |-> "Panic", err |-> NoError, some |-> FALSE, value |-> NoValue]
Pending == [tag |-> "Pending", err |-> NoError, some |-> FALSE, value |-> NoValue]

\* A Result<Vec<u8>, ClientError> or Result<String, ClientError>.
OkData(d) == [tag |-> "Ok", data |-> d, err |-> NoError]
ErrData(e) == [tag |-> "Err", data |-> <<>>, err |-> e]
NoData == [tag |-> "None", data |-> <<>>, err |-> NoError]

\* A call made to a collaborator, with the data passed to it.
Call(op, arg) == [op |-> op, arg |-> arg]

\* Body with the "{}" arm left out.
Body_NullOnly(parse_data) ==
  IF parse_data = S(<<"n", "u", "l", "l">>) THEN <<>>
  ELSE parse_data

\* The body match of execute: the texts "null" and "{}" become the empty
\* string, any other text is kept.
Body(parse_data) ==
  IF parse_data = S(<<"n", "u", "l", "l">>) THEN <<>>
  ELSE IF parse_data = S(<<"{", "}">>) THEN <<>>
  ELSE parse_data

\* Prepare that sends an empty body when serialization fails instead of
\* returning the failure.
Prepare_NoEarlyReturn(e, b) ==
  LET u == build_url(e.action, b)
      ser == to_string(e.data)
  IN IF u.tag = "Panic"
       THEN [result |-> Panic, parse_data |-> <<>>, request |-> NoRequest]
     ELSE IF u.tag = "Err"
       THEN [result |-> Err(u.err), parse_data |-> <<>>, request |-> NoRequest]
     ELSE [result |-> Pending,
           parse_data |-> ser.text,
           request |-> Request(u.url, e.method, e.query,
                               into_bytes(Body(ser.text)))]

\* execute up to the call of client.execute: build_url with `?`, method,
\* query, serde_json::to_string with `?`, the body match and the Request.
Prepare(e, b) ==
  LET u == build_url(e.action, b)
      ser == to_string(e.data)
  IN IF u.tag = "Panic"
       THEN [result |-> Panic, parse_data |-> <<>>, request |-> NoRequest]
     ELSE IF u.tag = "Err"
       THEN [result |-> Err(u.err), parse_data |-> <<>>, request |-> NoRequest]
     ELSE IF ~ser.ok
       THEN [result |-> Err(ClientError("DataParseError", <<>>)),
             parse_data |-> <<>>, request |-> NoRequest]
     ELSE [result |-> Pending,
           parse_data |-> ser.text,
           request |-> Request(u.url, e.method, e.query,
                               into_bytes(Body(ser.text)))]

\* ParseResponse without the is_empty match on the bytes.
ParseResponse_NoEmptyCheck(r) ==
  IF r.tag = "Err"
    THEN [result |-> Err(r.err), c |-> <<>>, calls |-> <<>>]
  ELSE LET t == from_utf8(r.data)
       IN IF ~t.ok
            THEN [result |-> Err(ClientError("ResponseConversionError", r.data)),
                  c |-> <<>>,
                  calls |-> <<Call("from_utf8", r.data)>>]
            ELSE [result |-> Pending,
                  c |-> t.text,
                  calls |-> <<Call("from_utf8", r.data), Call("transform", t.text)>>]

\* ParseResponse that wraps the client's failure in a RequestError.
ParseResponse_WrapError(r) ==
  IF r.tag = "Err"
    THEN [result |-> Err(ClientError("RequestError", r.err.content)),
          c |-> <<>>, calls |-> <<>>]
  ELSE IF r.data = <<>>
    THEN [result |-> Ok(FALSE, NoValue), c |-> <<>>, calls |-> <<>>]
  ELSE LET t == from_utf8(r.data)
       IN IF ~t.ok
            THEN [result |-> Err(ClientError("ResponseConversionError", r.data)),
                  c |-> <<>>,
                  calls |-> <<Call("from_utf8", r.data)>>]
            ELSE [result |-> Pending,
                  c |-> t.text,
                  calls |-> <<Call("from_utf8", r.data), Call("transform", t.text)>>]

\* ParseResponse whose conversion failure carries the bytes after they were
\* moved into from_utf8, that is, nothing.
ParseResponse_MovedBody(r) ==
  IF r.tag = "Err"
    THEN [result |-> Err(r.err), c |-> <<>>, calls |-> <<>>]
  ELSE IF r.data = <<>>
    THEN [result |-> Ok(FALSE, NoValue), c |-> <<>>, calls |-> <<>>]
  ELSE LET t == from_utf8(r.data)
       IN IF ~t.ok
            THEN [result |-> Err(ClientError("ResponseConversionError", <<>>)),
                  c |-> <<>>,
                  calls |-> <<Call("from_utf8", r.data)>>]
            ELSE [result |-> Pending,
                  c |-> t.text,
                  calls |-> <<Call("from_utf8", r.data), Call("transform", t.text)>>]

\* parse up to the call of endpoint.transform: `res?`, the is_empty match
\* and String::from_utf8 with its map_err.
ParseResponse(r) ==
  IF r.tag = "Err"
    THEN [result |-> Err(r.err), c |-> <<>>, calls |-> <<>>]
  ELSE IF r.data = <<>>
    THEN [result |-> Ok(FALSE, NoValue), c |-> <<>>, calls |-> <<>>]
  ELSE LET t == from_utf8(r.data)
       IN IF ~t.ok
            THEN [result |-> Err(ClientError("ResponseConversionError", r.data)),
                  c |-> <<>>,
                  calls |-> <<Call("from_utf8", r.data)>>]
            ELSE [result |-> Pending,
                  c |-> t.text,
                  calls |-> <<Call("from_utf8", r.data), Call("transform", t.text)>>]

\* ParseTransformed that wraps the hook's failure in a
\* ResponseTransformError.
ParseTransformed_WrapError(ty, h) ==
  IF h.tag = "Err"
    THEN [result |-> Err(ClientError("ResponseTransformError", h.err.content)),
          calls |-> <<>>]
  ELSE IF h.data = <<>>
    THEN [result |-> Ok(FALSE, NoValue), calls |-> <<>>]
  ELSE LET d == from_str(ty, h.data)
       IN [result |-> IF d.ok THEN Ok(TRUE, d.value)
                      ELSE Err(ClientError("ResponseParseError", h.data)),
           calls |-> <<Call("from_str", h.data)>>]

\* ParseTransformed without the is_empty match on the transformed text.
ParseTransformed_NoEmptyCheck(ty, h) ==
  IF h.tag = "Err"
    THEN [result |-> Err(h.err), calls |-> <<>>]
  ELSE LET d == from_str(ty, h.data)
       IN [result |-> IF d.ok THEN Ok(TRUE, d.value)
                      ELSE Err(ClientError("ResponseParseError", h.data)),
           calls |-> <<Call("from_str", h.data)>>]

\* ParseTransformed whose decode failure carries the text after it was moved
\* into the decoder, that is, nothing.
ParseTransformed_MovedText(ty, h) ==
  IF h.tag = "Err"
    THEN [result |-> Err(h.err), calls |-> <<>>]
  ELSE IF h.data = <<>>
    THEN [result |-> Ok(FALSE, NoValue), calls |-> <<>>]
  ELSE LET d == from_str(ty, h.data)
       IN [result |-> IF d.ok THEN Ok(TRUE, d.value)
                      ELSE Err(ClientError("ResponseParseError", <<>>)),
           calls |-> <<Call("from_str", h.data)>>]

\* parse from the return of endpoint.transform on: `?`, the is_empty match
\* and serde_json::from_str with its map_err.
ParseTransformed(ty, h) ==
  IF h.tag = "Err"
    THEN [result |-> Err(h.err), calls |-> <<>>]
  ELSE IF h.data = <<>>
    THEN [result |-> Ok(FALSE, NoValue), calls |-> <<>>]
  ELSE LET d == from_str(ty, h.data)
       IN [result |-> IF d.ok THEN Ok(TRUE, d.value)
                      ELSE Err(ClientError("ResponseParseError", h.data)),
           calls |-> <<Call("from_str", h.data)>>]

(***************************************************************************)
(* Inputs                                                                  *)
(***************************************************************************)

Hello == S(<<"h", "e", "l", "l", "o">>)
EmptyStruct == Val("struct", <<>>, <<>>)

\* Endpoint values as the serializer sees them: a unit struct, a struct
\* without fields, a struct with a string field, one with an empty nested
\* struct, an empty sequence, and a map keyed by something that is not a
\* string.
DataValues ==
  {Val("unit", <<>>, <<>>),
   EmptyStruct,
   Val("struct", <<>>, <<Item(S(<<"d", "a", "t", "a">>), Val("str", Hello, <<>>))>>),
   Val("struct", <<>>, <<Item(S(<<"a">>), EmptyStruct)>>),
   Val("seq", <<>>, <<>>),
   Val("badmap", <<>>, <<>>)}

Actions ==
  {S(<<"a", "/", "b">>), S(<<"/", "a", "/", "b">>), S(<<"a", "/", "b", "/">>),
   S(<<"a", "/", "/", "b">>), S(<<"a", "/", ".", ".", "/", "b">>),
   S(<<"a">>), <<>>}

Queries == {<<>>, <<Item(S(<<"a">>), Val("str", S(<<"b">>), <<>>))>>}

\* Endpoint types: a GET with a query pair, a POST without.
Endpoints ==
  [data : DataValues, action : Actions, method : {"GET"},
   query : Queries \ {<<>>}, result_type : {"Empty", "Value"}]
  \cup [data : DataValues, action : Actions, method : {"POST"},
        query : {<<>>}, result_type : {"Empty", "Value"}]

HttpH == S(<<"h", "t", "t", "p", ":", "/", "/", "h">>)

Bases ==
  {HttpH, HttpH \o S(<<"/">>), HttpH \o S(<<"/", "a", "p", "i">>),
   HttpH \o S(<<"/", "a", "p", "i", "/">>),
   S(<<"h", "/", "a", "p", "i">>), S(<<"h", "t", "t", "p", ":", "/", "/">>),
   S(<<"m", "a", "i", "l", "t", "o", ":", "x">>)}

Value42 == ValuePrefix \o S(<<"4", "2", "}">>)
Value7 == ValuePrefix \o S(<<"7", "}">>)

\* Failures a client or a transform hook may return.
CollaboratorErrors ==
  {ClientError("RequestError", S(<<"t">>)),
   ClientError("ResponseTransformError", S(<<"e">>)),
   ClientError("ResponseParseError", Value7)}

\* Byte vectors a client may return: nothing, JSON texts, texts that are not
\* JSON (one with a two-byte character), and bytes that are not UTF-8.
ResponseBytes ==
  {<<>>, into_bytes(Value42), into_bytes(S(<<"{", "}">>)), into_bytes(S(<<"x">>)),
   into_bytes(<<233>>), <<195>>, <<120, 255>>, <<123, 125, 128>>}

ClientOutcomes ==
  {OkData(b) : b \in ResponseBytes} \cup {ErrData(e) : e \in CollaboratorErrors}

\* What transform may return for the text c: c itself (the default), the
\* empty string, another text, or a failure.
TransformOutcomes(c) ==
  {OkData(c), OkData(<<>>), OkData(Value7), OkData(S(<<"x">>))}
    \cup {ErrData(e) : e \in CollaboratorErrors}

(***************************************************************************)
(* State                                                                   *)
(***************************************************************************)

VARIABLES
  pc,          \* "idle", "client", "transform", "done" or "panicked"
  endpoint,    \* the endpoint value being executed
  base,        \* client.base()
  parse_data,  \* the text serde_json::to_string produced
  request,     \* the Request handed to client.execute
  res,         \* what client.execute returned
  c,           \* the text of the response
  hook,        \* what endpoint.transform returned
  result,      \* what execute returned
  log,         \* the calls made to collaborators during this execution
  executions   \* number of executions started

vars ==
  <<pc, endpoint, base, parse_data, request, res, c, hook, result, log, executions>>

NoEndpoint ==
  [data |-> Val("unit", <<>>, <<>>), action |-> <<>>, method |-> "none",
   query |-> <<>>, result_type |-> "none"]

Init ==
  /\ pc = "idle"
  /\ endpoint = NoEndpoint
  /\ base = <<>>
  /\ parse_data = <<>>
  /\ request = NoRequest
  /\ res = NoData
  /\ c = <<>>
  /\ hook = NoData
  /\ result = Pending
  /\ log = <<>>
  /\ executions = 0

\* A caller runs e.execute(client) with client.base() = b: execute runs up to
\* its call of client.execute, or returns early, or panics.
Execute(e, b) ==
  LET p == Prepare(e, b)
  IN /\ pc = "idle"
     /\ executions < MaxCalls
     /\ executions' = executions + 1
     /\ endpoint' = e
     /\ base' = b
     /\ parse_data' = p.parse_data
     /\ request' = p.request
     /\ result' = p.result
     /\ log' = IF p.result.tag = "Pending"
                 THEN <<Call("client.execute", p.request.body)>>
                 ELSE <<>>
     /\ pc' = IF p.result.tag = "Pending" THEN "client"
              ELSE IF p.result.tag = "Panic" THEN "panicked"
              ELSE "done"
     /\ UNCHANGED <<res, c, hook>>

\* client.execute returns r and parse runs up to its call of
\* endpoint.transform, or returns.
ClientExecute(r) ==
  LET p == ParseResponse(r)
  IN /\ pc = "client"
     /\ res' = r
     /\ c' = p.c
     /\ result' = p.result
     /\ log' = log \o p.calls
     /\ pc' = IF p.result.tag = "Pending" THEN "transform" ELSE "done"
     /\ UNCHANGED <<endpoint, base, parse_data, request, hook, executions>>

\* endpoint.transform returns h and parse runs to its end.
Transform(h) ==
  LET p == ParseTransformed(endpoint.result_type, h)
  IN /\ pc = "transform"
     /\ hook' = h
     /\ c' = IF h.tag = "Ok" THEN h.data ELSE c
     /\ result' = p.result
     /\ log' = log \o p.calls
     /\ pc' = "done"
     /\ UNCHANGED <<endpoint, base, parse_data, request, res, executions>>

\* The caller takes the result; the endpoint value and everything local to
\* the call are dropped.
Return ==
  /\ pc = "done"
  /\ pc' = "idle"
  /\ endpoint' = NoEndpoint
  /\ base' = <<>>
  /\ parse_data' = <<>>
  /\ request' = NoRequest
  /\ res' = NoData
  /\ c' = <<>>
  /\ hook' = NoData
  /\ result' = Pending
  /\ log' = <<>>
  /\ UNCHANGED executions

Next ==
  \/ \E e \in Endpoints, b \in Bases : Execute(e, b)
  \/ \E r \in ClientOutcomes : ClientExecute(r)
  \/ \E h \in TransformOutcomes(c) : Transform(h)
  \/ Return

Spec == Init /\ [][Next]_vars

(***************************************************************************)
(* Properties                                                              *)
(***************************************************************************)

\* Number of calls of op made so far in this execution.
Count(op) == Cardinality({i \in DOMAIN log : log[i].op = op})
Called(op) == \E i \in DOMAIN log : log[i].op = op
\* The data passed to the first call of op.
ArgOf(op) == log[CHOOSE i \in DOMAIN log : log[i].op = op].arg

Null == S(<<"n", "u", "l", "l">>)
EmptyObject == S(<<"{", "}">>)
Absent == Ok(FALSE, NoValue)

\* C1: when the client returns success with zero bytes, execute has returned
\* Ok(None) and neither transform nor the decoder was called.
C1_EmptyResponseIsAbsent ==
  (res.tag = "Ok" /\ res.data = <<>>) =>
    /\ pc = "done"
    /\ result = Absent
    /\ ~Called("transform")
    /\ ~Called("from_str")

C1_Witness ==
  /\ pc = "done"
  /\ res.tag = "Ok"
  /\ res.data = <<>>
  /\ result.tag = "Ok"
  /\ endpoint.result_type = "Value"

\* C2: the body handed to the client is empty exactly when the serialized
\* text is "null" or "{}", and is the UTF-8 bytes of the serialized text
\* otherwise.
C2_BodyNormalization ==
  Called("client.execute") =>
    /\ ArgOf("client.execute") = request.body
    /\ (request.body = <<>>) <=> (parse_data \in {Null, EmptyObject})
    /\ (parse_data \notin {Null, EmptyObject}) =>
         request.body = into_bytes(parse_data)

C2_Witness ==
  /\ Called("client.execute")
  /\ parse_data = S(<<"[", "]">>)
  /\ request.body = <<91, 93>>

\* The '/'-separated segments of a path, as Url::path_segments gives them.
PathSegments(path) == Split(Drop(path, 1), Slash)
NonEmpty(segs) == SelectSeq(segs, LAMBDA x : x # <<>>)
NonDot(segs) == SelectSeq(segs, LAMBDA x : x # <<Dot>> /\ x # <<Dot, Dot>>)
DropLastEmpty(segs) ==
  IF segs # <<>> /\ segs[Len(segs)] = <<>>
    THEN SubSeq(segs, 1, Len(segs) - 1) ELSE segs

\* C3: the path of the URL handed to the client is the base's path followed
\* by the non-empty segments of the action in order; empty segments of the
\* action add nothing.  (A trailing '/' of the base may or may not be kept,
\* and "." and ".." segments are left out of the comparison.)
C3_PathIsBasePlusNonEmptySegments ==
  Called("client.execute") =>
    LET bs == PathSegments(Path(ParseUrl(base).url))
        ns == NonDot(NonEmpty(Split(endpoint.action, Slash)))
        rs == PathSegments(Path(request.url))
    IN rs = bs \o ns \/ rs = DropLastEmpty(bs) \o ns

\* C4: when transform returns a failure, execute has returned exactly that
\* failure and the decoder was not called.
C4_TransformFailurePropagates ==
  hook.tag = "Err" =>
    /\ pc = "done"
    /\ result = Err(hook.err)
    /\ ~Called("from_str")

C4_Witness ==
  /\ pc = "done"
  /\ hook.tag = "Err"
  /\ hook.err.kind = "RequestError"
  /\ result.tag = "Err"
  /\ Called("transform")

\* C5: when transform returns the empty string for a non-empty response,
\* execute has returned Ok(None) and the decoder was not called.
C5_EmptyTransformIsAbsent ==
  (hook.tag = "Ok" /\ hook.data = <<>>) =>
    /\ pc = "done"
    /\ res.data # <<>>
    /\ result = Absent
    /\ ~Called("from_str")

C5_Witness ==
  /\ pc = "done"
  /\ hook.tag = "Ok"
  /\ hook.data = <<>>
  /\ res.data = into_bytes(Value42)
  /\ endpoint.result_type = "Value"
  /\ result = Absent

\* C6 as stated: every execution, once over, has called client.execute
\* exactly once.
C6_ExactlyOneTransportCall ==
  pc \in {"done", "panicked"} => Count("client.execute") = 1

\* C6 amended: client.execute is never called more than once in an
\* execution; it has been called once exactly when the URL was built and the
\* endpoint value was serialized, and not at all when either failed.
C6_OneTransportCallIfPrepared ==
  /\ Count("client.execute") <= 1
  /\ pc # "idle" =>
       (Count("client.execute") = 1
          <=> /\ build_url(endpoint.action, base).tag = "Ok"
              /\ to_string(endpoint.data).ok)

C6_Witness ==
  /\ pc = "done"
  /\ result.tag = "Err"
  /\ result.err.kind = "DataParseError"
  /\ Count("client.execute") = 0

\* C7: when the client returns a failure, execute has returned that failure
\* unchanged and neither from_utf8, transform nor the decoder was called.
C7_TransportFailurePassesThrough ==
  res.tag = "Err" =>
    /\ pc = "done"
    /\ result = Err(res.err)
    /\ ~Called("from_utf8")
    /\ ~Called("transform")
    /\ ~Called("from_str")

C7_Witness ==
  /\ pc = "done"
  /\ res.tag = "Err"
  /\ res.err.kind = "ResponseParseError"
  /\ result.tag = "Err"

\* Responses that are not well-formed UTF-8: a lone lead byte, a byte that
\* never occurs in UTF-8, a lone continuation byte.
InvalidUtf8 == {<<195>>, <<120, 255>>, <<123, 125, 128>>}

\* C8: when the client returns bytes that are not UTF-8, execute has failed
\* with a ResponseConversionError carrying exactly those bytes, and neither
\* transform nor the decoder was called.
C8_ConversionFailureCarriesBytes ==
  (res.tag = "Ok" /\ res.data \in InvalidUtf8) =>
    /\ pc = "done"
    /\ result = Err(ClientError("ResponseConversionError", res.data))
    /\ ~Called("transform")
    /\ ~Called("from_str")

C8_Witness ==
  /\ pc = "done"
  /\ res.tag = "Ok"
  /\ res.data = <<123, 125, 128>>
  /\ result.err.kind = "ResponseConversionError"

\* C9: transform is called at most once, only after the client returned
\* non-empty bytes and with the text of those bytes; the decoder is called
\* only after transform returned, with what transform returned, and a decode
\* failure carries that text; transform is never called after the decoder.
C9_TransformBeforeDecode ==
  /\ Count("transform") <= 1
  /\ Called("transform") =>
       /\ res.tag = "Ok"
       /\ res.data # <<>>
       /\ into_bytes(ArgOf("transform")) = res.data
  /\ Called("from_str") =>
       /\ hook.tag = "Ok"
       /\ ArgOf("from_str") = hook.data
       /\ result.tag = "Err" =>
            result.err = ClientError("ResponseParseError", hook.data)
  /\ \A i, j \in DOMAIN log :
       (log[i].op = "from_str" /\ log[j].op = "transform") => j < i

C9_Witness ==
  /\ pc = "done"
  /\ Called("from_str")
  /\ res.data = into_bytes(Value42)
  /\ hook.data = S(<<"x">>)
  /\ result.err.kind = "ResponseParseError"

FailureKinds ==
  {"UrlParseError", "DataParseError", "RequestError",
   "ResponseConversionError", "ResponseTransformError", "ResponseParseError"}

\* C10: execute always returns: an absent result, a decoded result or one of
\* the six kinds of failure; a base that cannot be used gives a
\* UrlParseError carrying the base; execute never panics.
C10_AlwaysReturns ==
  /\ pc # "panicked"
  /\ result.tag # "Panic"
  /\ pc = "done" =>
       \/ result.tag = "Ok"
       \/ result.tag = "Err" /\ result.err.kind \in FailureKinds
  /\ (pc = "done" /\ (~ParseUrl(base).ok \/ ParseUrl(base).url.cannot_be_a_base)) =>
       result = Err(ClientError("UrlParseError", base))
====
